---- MODULE Spec2Model ----
(***************************************************************************)
(* Finite automata of python-automata (src/main.py): construction and      *)
(* classification, epsilon elimination, subset construction and the        *)
(* simulation of a word.                                                     *)
(*                                                                           *)
(* Values.  A caller's state or input symbol is a positive integer.  A      *)
(* Symbol object (main.py:15-33) is equal only to itself, so it is          *)
(* modelled by its identity: Symbol(id) is the negative integer -id.  The   *)
(* three module-level sentinels are the first three Symbol objects.         *)
(* Automata built by the caller have states, destinations and alphabet      *)
(* drawn from the caller's domain; EPSILON appears only as the symbol of a  *)
(* transition key (spec section 3).                                         *)
(*                                                                           *)
(* The caller.  One constructor call starts a run.  Every later call is     *)
(* remove_epsilon_transitions or determinize on the newest automaton, or    *)
(* compute or accepts on any automaton created so far; a simulation is      *)
(* followed by one of the two operations, not by another simulation.  Spec  *)
(* takes each call as one step and accepts without its cache; the loops of  *)
(* __reachable_without_read and determinize are taken step by step in       *)
(* ClosureSpec and DeterminizeSpec, and the cache of accepts in CacheSpec.  *)
(***************************************************************************)
EXTENDS Integers, Sequences, FiniteSets, TLC

\* ------------------------------------------------------------------ bounds
NumStates == 2
NumSymbols == 2
MaxEntries == 2
MaxEmptyKeys == 1
MaxWordLen == 2
MaxObjects == 3

StateDom == 1..NumStates
SymDom == 1..NumSymbols

\* ----------------------------------------------------------------- Symbol
Symbol(id) == 0 - id
IsSymbol(x) == x < 0
EMPTY == Symbol(1)
EPSILON == Symbol(2)
START == Symbol(3)
\* first identity free for a Symbol created after the three sentinels
FirstFreeId(live) ==
    LET ids == {0 - x : x \in {y \in live : IsSymbol(y)}} \cup {1, 2, 3}
    IN  1 + (CHOOSE m \in ids : \A n \in ids : n <= m)

\* ---------------------------------------------------------------- helpers
\* iteration over a set: one fixed order (ascending)
RECURSIVE SetToSeq(_)
SetToSeq(S) ==
    IF S = {} THEN <<>>
    ELSE LET m == CHOOSE x \in S : \A y \in S : x <= y
         IN  <<m>> \o SetToSeq(S \ {m})

Elems(seq) == {seq[i] : i \in DOMAIN seq}

\* dict.get(key, default)
Get(d, k, default) == IF k \in DOMAIN d THEN d[k] ELSE default
\* d[key] = value
Put(d, k, v) == [x \in (DOMAIN d) \cup {k} |-> IF x = k THEN v ELSE d[x]]

EmptyDict == [x \in {} |-> {}]

\* --------------------------------------------------------- FiniteAutomaton
\* variant: the start state is checked before the alphabet
InitError_StartFirst(states, alphabet, start, accepting) ==
    IF states = {} THEN "A finite automaton must have at least one state"
    ELSE IF start \notin states THEN "The start state must be in the states"
    ELSE IF alphabet = {}
    THEN "A finite automaton must have at least one symbol in its input alphabet"
    ELSE IF ~(accepting \subseteq states)
    THEN "The accepting states must be a subset of the states"
    ELSE "none"

\* __init__'s checks, in order; "none" when all four pass
InitError(states, alphabet, start, accepting) ==
    IF states = {} THEN "A finite automaton must have at least one state"
    ELSE IF alphabet = {}
    THEN "A finite automaton must have at least one symbol in its input alphabet"
    ELSE IF start \notin states THEN "The start state must be in the states"
    ELSE IF ~(accepting \subseteq states)
    THEN "The accepting states must be a subset of the states"
    ELSE "none"

IsTotal(states, alphabet, transitions) ==
    \A state \in states : \A symbol \in alphabet :
        <<state, symbol>> \in DOMAIN transitions

\* variant: the dfa test comes before the EPSILON test
GetType_DfaFirst(states, alphabet, transitions) ==
    IF /\ \A k \in DOMAIN transitions : Cardinality(transitions[k]) <= 1
       /\ IsTotal(states, alphabet, transitions)
    THEN "dfa"
    ELSE IF \E k \in DOMAIN transitions : k[2] = EPSILON THEN "epsilon-nfa"
    ELSE "nfa"

GetType(states, alphabet, transitions) ==
    IF \E k \in DOMAIN transitions : k[2] = EPSILON THEN "epsilon-nfa"
    ELSE IF /\ \A k \in DOMAIN transitions : Cardinality(transitions[k]) <= 1
            /\ IsTotal(states, alphabet, transitions)
         THEN "dfa"
         ELSE "nfa"

\* the object __init__ leaves behind when no check fails
FiniteAutomaton(states, alphabet, transitions, start, accepting) ==
    [states |-> states, alphabet |-> alphabet, transitions |-> transitions,
     start |-> start, accepting |-> accepting,
     type |-> GetType(states, alphabet, transitions)]

\* ------------------------------------------------- __reachable_without_read
\* the while loop: pop the head, enqueue and mark its unvisited EPSILON
\* successors
RECURSIVE ReachLoop(_, _, _)
ReachLoop(transitions, queue, visited) ==
    IF queue = <<>> THEN visited
    ELSE LET state == Head(queue)
             fresh == Get(transitions, <<state, EPSILON>>, {}) \ visited
         IN  ReachLoop(transitions, Tail(queue) \o SetToSeq(fresh),
                       visited \cup fresh)

ReachableWithoutRead(A, start) == ReachLoop(A.transitions, <<start>>, {start})

\* ----------------------------------------------- remove_epsilon_transitions
\* variant: next2 is recorded, without the closure of the destinations
EpsilonFreeTargets_NoSecondClosure(A, state, symbol) ==
    LET next1 == ReachableWithoutRead(A, state)
    IN  UNION {Get(A.transitions, <<s, symbol>>, {}) : s \in next1}

\* next3 of one (state, symbol) pair
EpsilonFreeTargets(A, state, symbol) ==
    LET next1 == ReachableWithoutRead(A, state)
        next2 == UNION {Get(A.transitions, <<s, symbol>>, {}) : s \in next1}
    IN  UNION {ReachableWithoutRead(A, s) : s \in next2}

\* the first loop: one entry per (state, symbol) of states x alphabet
NewTransitions(A) ==
    [k \in A.states \X A.alphabet |-> EpsilonFreeTargets(A, k[1], k[2])]

\* the second loop: START gets the entries of the start state
WithStartEntries(A, new_transitions) ==
    [k \in (DOMAIN new_transitions) \cup {<<START, a>> : a \in A.alphabet} |->
        IF k[1] = START THEN new_transitions[<<A.start, k[2]>>]
        ELSE new_transitions[k]]

\* the accepting set handed to the constructor
EpsilonFreeAccepting(A) == A.accepting

\* the automaton built when the receiver is an epsilon-nfa
EpsilonFree(A) ==
    FiniteAutomaton(A.states \cup {START}, A.alphabet,
                    WithStartEntries(A, NewTransitions(A)), START,
                    EpsilonFreeAccepting(A))

\* the value returned (the receiver's contents when it is returned itself)
RemoveEpsilonTransitions(A) ==
    IF A.type # "epsilon-nfa" THEN A ELSE EpsilonFree(A)

\* -------------------------------------------------------------- determinize
\* a member of the discovered set: a SubsetState with the Symbol made for it
\* at creation, or the EMPTY sentinel
SubsetState(seq, id) ==
    [kind |-> "SubsetState", states |-> seq, symbol |-> Symbol(id)]
EmptyState == [kind |-> "Symbol", states |-> <<>>, symbol |-> EMPTY]
ToSymbol(s) == s.symbol

\* the union of the destinations of a composite's elements on one symbol
NextStates(A, state, symbol) ==
    UNION {Get(A.transitions, <<s, symbol>>, {}) : s \in Elems(state.states)}

\* variant: no discovered composite is ever found again
FindSubset_None(states, next_states) == {}

\* the discovered composites whose element set is next_states
FindSubset(states, next_states) ==
    {s \in states : s.kind = "SubsetState" /\ Elems(s.states) = next_states}

\* the body of "for symbol in alphabet" for one dequeued composite
ExpandSymbol(A, w, state, symbol) ==
    LET next_states == NextStates(A, state, symbol)
        found == FindSubset(w.states, next_states)
    IN  IF next_states = {}
        THEN [w EXCEPT !.transitions = Put(@, <<state, symbol>>, EmptyState),
                       !.states = @ \cup {EmptyState}]
        ELSE IF found # {}
        THEN [w EXCEPT !.transitions =
                  Put(@, <<state, symbol>>, CHOOSE s \in found : TRUE)]
        ELSE LET next_state == SubsetState(SetToSeq(next_states), w.nextId)
             IN  [w EXCEPT !.transitions = Put(@, <<state, symbol>>, next_state),
                           !.states = @ \cup {next_state},
                           !.queue = Append(@, next_state),
                           !.nextId = @ + 1]

RECURSIVE ExpandSymbols(_, _, _, _)
ExpandSymbols(A, w, state, symbols) ==
    IF symbols = <<>> THEN w
    ELSE ExpandSymbols(A, ExpandSymbol(A, w, state, Head(symbols)), state,
                       Tail(symbols))

\* one iteration of "while queue"
ExpandState(A, w) ==
    ExpandSymbols(A, [w EXCEPT !.queue = Tail(@)], Head(w.queue),
                  SetToSeq(A.alphabet))

RECURSIVE Worklist(_, _)
Worklist(A, w) == IF w.queue = <<>> THEN w ELSE Worklist(A, ExpandState(A, w))

\* start, states, queue and transitions before the loop; base is the first
\* identity free for the Symbols created by this call
InitialWork(A, base) ==
    LET start == SubsetState(<<A.start>>, base)
    IN  [start |-> start, states |-> {start}, queue |-> <<start>>,
         transitions |-> EmptyDict, nextId |-> base + 1]

\* variant: EMPTY is left without transitions
WithEmptyLoops_None(A, w) == w.transitions

\* "if EMPTY in states": EMPTY loops to itself on every symbol
WithEmptyLoops(A, w) ==
    IF EmptyState \in w.states
    THEN [k \in (DOMAIN w.transitions) \cup {<<EmptyState, a>> : a \in A.alphabet}
            |-> IF k[1] = EmptyState THEN EmptyState ELSE w.transitions[k]]
    ELSE w.transitions

\* variant: all() in place of any()
AcceptingSubsets_All(A, states) ==
    {state \in states : /\ state.kind = "SubsetState"
                        /\ \A s \in Elems(state.states) : s \in A.accepting}

AcceptingSubsets(A, states) ==
    {state \in states : /\ state.kind = "SubsetState"
                        /\ \E s \in Elems(state.states) : s \in A.accepting}

\* the relabelled automaton built after the loop from its locals
Relabel(A, w) ==
    LET transitions == WithEmptyLoops(A, w)
        set_accepting == {ToSymbol(state) : state \in AcceptingSubsets(A, w.states)}
        set_states == {ToSymbol(state) : state \in w.states}
        set_transitions ==
            [k \in {<<ToSymbol(x[1]), x[2]>> : x \in DOMAIN transitions} |->
                {ToSymbol(transitions[x]) :
                    x \in {y \in DOMAIN transitions :
                              <<ToSymbol(y[1]), y[2]>> = k}}]
    IN  FiniteAutomaton(set_states, A.alphabet, set_transitions,
                        ToSymbol(w.start), set_accepting)

\* lines 264-315: the loop, then the relabelling
SubsetConstruction(A, base) == Relabel(A, Worklist(A, InitialWork(A, base)))

\* variant: an epsilon-nfa is only rid of its EPSILON transitions
RECURSIVE Determinize_NoSecondPass(_, _)
Determinize_NoSecondPass(A, base) ==
    IF A.type = "dfa" THEN A
    ELSE IF A.type = "epsilon-nfa" THEN RemoveEpsilonTransitions(A)
    ELSE SubsetConstruction(A, base)

\* the value returned (the receiver's contents when it is returned itself)
RECURSIVE Determinize(_, _)
Determinize(A, base) ==
    IF A.type = "dfa" THEN A
    ELSE IF A.type = "epsilon-nfa"
    THEN Determinize(RemoveEpsilonTransitions(A), base)
    ELSE SubsetConstruction(A, base)

\* ------------------------------------------------------- compute / accepts
NoPair == <<>>
\* the for loop of compute on a dfa: the states yielded, and the exception
\* that ends the generator, if any
RECURSIVE Simulate(_, _, _, _)
Simulate(A, state, word, path) ==
    IF word = <<>> THEN [path |-> path, exc |-> "none", at |-> NoPair]
    ELSE LET symbol == Head(word)
             key == <<state, symbol>>
         IN  IF key \notin DOMAIN A.transitions
             THEN [path |-> path, exc |-> "Illegal transition", at |-> key]
             ELSE IF Cardinality(A.transitions[key]) = 0
             THEN [path |-> path, exc |-> "not enough values to unpack",
                   at |-> NoPair]
             ELSE IF Cardinality(A.transitions[key]) > 1
             THEN [path |-> path, exc |-> "too many values to unpack",
                   at |-> NoPair]
             ELSE LET next == CHOOSE s \in A.transitions[key] : TRUE
                  IN  Simulate(A, next, Tail(word), Append(path, next))

RECURSIVE Compute(_, _, _)
Compute(A, word, base) ==
    IF A.type # "dfa" THEN Compute(Determinize(A, base), word, base)
    ELSE Simulate(A, A.start, word, <<A.start>>)

\* accepts without its cache: the value returned, when compute ends normally
Accepts(A, word, base) ==
    LET c == Compute(A, word, base)
    IN  [value |-> c.exc = "none" /\ c.path[Len(c.path)] \in A.accepting,
         exc |-> c.exc, at |-> c.at]

\* =================================================================== state
\* heap:  the automaton objects created so far; an object's identity is its
\*        index.
\* call:  the last call made by the caller and how it ended.
\* frame: the locals of the call in progress, where a call is taken step by
\*        step.
\* cache: the entries of accepts' lru_cache, least recently used first.
VARIABLES heap, call, frame, cache
vars == <<heap, call, frame, cache>>

NoArgs == [states |-> {}, alphabet |-> {}, start |-> 0, accepting |-> {}]
NoCall ==
    [op |-> "none", self |-> 0, word |-> <<>>, args |-> NoArgs, ret |-> 0,
     path |-> <<>>, value |-> FALSE, exc |-> "none", at |-> NoPair]

NoFrame == [pc |-> "none"]
NoCache == <<>>

\* the Symbols of the objects the caller still holds (an identity is free
\* again once its object is garbage)
LiveSymbols == UNION {heap[i].states : i \in DOMAIN heap}

\* -------------------------------------------------------- caller's inputs
KeySymbols == SymDom \cup {EPSILON}
Edges == StateDom \X KeySymbols \X StateDom
Keys == StateDom \X KeySymbols
KeysOf(E) == {<<e[1], e[2]>> : e \in E}
\* the dict with one destination per edge of E and an empty set per key of Z
TransitionDict(E, Z) ==
    [k \in KeysOf(E) \cup Z |-> {e[3] : e \in {x \in E : <<x[1], x[2]>> = k}}]
\* the subsets of S with at most n elements
RECURSIVE SubsetsUpTo(_, _)
SubsetsUpTo(S, n) ==
    IF n = 0 THEN {{}}
    ELSE LET P == SubsetsUpTo(S, n - 1)
         IN  P \cup {X \cup {e} : X \in P, e \in S}
\* at most MaxEntries recorded destinations and empty entries together
TransitionDicts ==
    {TransitionDict(p[1], p[2]) :
        p \in {q \in SubsetsUpTo(Edges, MaxEntries) \X
                     SubsetsUpTo(Keys, MaxEmptyKeys) :
                  Cardinality(q[1]) + Cardinality(q[2]) <= MaxEntries}}
StateSets == {1..n : n \in 0..NumStates}
Alphabets == {1..n : n \in 0..NumSymbols}
Words == UNION {[1..n -> SymDom] : n \in 0..MaxWordLen}

IsQuery(c) == c.op \in {"compute", "accepts"}

Init ==
    /\ heap = <<>>
    /\ call = NoCall
    /\ frame = NoFrame
    /\ cache = NoCache

\* FiniteAutomaton(states, alphabet, transitions, start, accepting); the
\* first call of a run (the guard call = NoCall stands in Next, before the
\* choice of the arguments)
Construct(states, alphabet, transitions, start, accepting) ==
    LET e == InitError(states, alphabet, start, accepting)
        args == [states |-> states, alphabet |-> alphabet, start |-> start,
                 accepting |-> accepting]
    IN  /\ heap' = IF e = "none"
                   THEN <<FiniteAutomaton(states, alphabet, transitions, start,
                                          accepting)>>
                   ELSE heap
        /\ call' = [NoCall EXCEPT !.op = "init", !.args = args, !.exc = e,
                                  !.ret = IF e = "none" THEN 1 ELSE 0]
        /\ UNCHANGED <<frame, cache>>

\* variant: START is added to the receiver's own state set
HeapAfterRemoveEpsilon_InPlace(h, i) ==
    IF h[i].type # "epsilon-nfa" THEN h
    ELSE Append([h EXCEPT ![i].states = @ \cup {START}], EpsilonFree(h[i]))

\* the heap after heap[i].remove_epsilon_transitions()
HeapAfterRemoveEpsilon(h, i) ==
    IF h[i].type # "epsilon-nfa" THEN h ELSE Append(h, EpsilonFree(h[i]))

CallRemoveEpsilonTransitions(i) ==
    /\ i = Len(heap)
    /\ Len(heap) < MaxObjects
    /\ heap' = HeapAfterRemoveEpsilon(heap, i)
    /\ call' = [NoCall EXCEPT !.op = "remove_epsilon_transitions", !.self = i,
                   !.ret = IF heap[i].type # "epsilon-nfa" THEN i
                           ELSE Len(heap) + 1]
    /\ UNCHANGED <<frame, cache>>

\* the heap after heap[i].determinize()
HeapAfterDeterminize(h, i, base) ==
    IF h[i].type = "dfa" THEN h ELSE Append(h, Determinize(h[i], base))

CallDeterminize(i) ==
    /\ i = Len(heap)
    /\ Len(heap) < MaxObjects
    /\ heap' = HeapAfterDeterminize(heap, i, FirstFreeId(LiveSymbols))
    /\ call' = [NoCall EXCEPT !.op = "determinize", !.self = i,
                   !.ret = IF heap[i].type = "dfa" THEN i ELSE Len(heap) + 1]
    /\ UNCHANGED <<frame, cache>>

CallCompute(i, word) ==
    LET c == Compute(heap[i], word, FirstFreeId(LiveSymbols))
    IN  /\ ~IsQuery(call)
        /\ call' = [NoCall EXCEPT !.op = "compute", !.self = i, !.word = word,
                       !.path = c.path, !.exc = c.exc, !.at = c.at]
        /\ UNCHANGED <<heap, frame, cache>>

CallAccepts(i, word) ==
    LET r == Accepts(heap[i], word, FirstFreeId(LiveSymbols))
    IN  /\ ~IsQuery(call)
        /\ call' = [NoCall EXCEPT !.op = "accepts", !.self = i, !.word = word,
                       !.value = r.value, !.exc = r.exc, !.at = r.at]
        /\ UNCHANGED <<heap, frame, cache>>

Next ==
    \/ /\ call = NoCall
       /\ \E states \in StateSets, alphabet \in Alphabets,
             transitions \in TransitionDicts, start \in StateDom,
             accepting \in SUBSET StateDom :
             Construct(states, alphabet, transitions, start, accepting)
    \/ \E i \in DOMAIN heap : CallRemoveEpsilonTransitions(i)
    \/ \E i \in DOMAIN heap : CallDeterminize(i)
    \/ \E i \in DOMAIN heap, word \in Words : CallCompute(i, word)
    \/ \E i \in DOMAIN heap, word \in Words : CallAccepts(i, word)

Spec == Init /\ [][Next]_vars

\* ================================ __reachable_without_read, step by step
\* The receiver's transitions are any dict over MaxClosureStates states:
\* every state has no EPSILON key or any set of EPSILON destinations, and
\* the keys of the input symbol either all lead everywhere or are all absent.
MaxClosureStates == 3
ClosureDom == 1..MaxClosureStates
EpsilonDicts ==
    UNION {[(K \X {EPSILON}) -> SUBSET ClosureDom] : K \in SUBSET ClosureDom}
WithSymbolEdges(d) ==
    [k \in (DOMAIN d) \cup (ClosureDom \X {1}) |->
        IF k[2] = EPSILON THEN d[k] ELSE ClosureDom]
ClosureDicts == EpsilonDicts \cup {WithSymbolEdges(d) : d \in EpsilonDicts}

\* queue = deque([start]); visited = {start}.  enqueued lists every state
\* ever put on the queue.
ReachFrame(self, start) ==
    [pc |-> "while", self |-> self, start |-> start, queue |-> <<start>>,
     visited |-> {start}, state |-> start, pending |-> {},
     enqueued |-> <<start>>]

\* variant: a successor is enqueued whether visited or not
ReachVisit_NoVisitedCheck(f, s) ==
    [f EXCEPT !.pending = @ \ {s}, !.queue = Append(@, s),
              !.visited = @ \cup {s}, !.enqueued = Append(@, s)]

\* the body of "for state in ...get((state, EPSILON), set())" for successor s
ReachVisit(f, s) ==
    IF s \notin f.visited
    THEN [f EXCEPT !.pending = @ \ {s}, !.queue = Append(@, s),
                   !.visited = @ \cup {s}, !.enqueued = Append(@, s)]
    ELSE [f EXCEPT !.pending = @ \ {s}]

ClosureInit ==
    /\ \E d \in ClosureDicts, start \in ClosureDom :
          /\ heap = <<FiniteAutomaton(ClosureDom, {1}, d, 1, {})>>
          /\ frame = ReachFrame(1, start)
    /\ call = [NoCall EXCEPT !.op = "__reachable_without_read", !.self = 1]
    /\ cache = NoCache

\* "while queue" with a non-empty queue: state = queue.popleft()
ReachPop ==
    /\ frame.pc = "while" /\ frame.queue # <<>>
    /\ frame' = [frame EXCEPT
                    !.pc = "for", !.state = Head(frame.queue),
                    !.queue = Tail(@),
                    !.pending = Get(heap[frame.self].transitions,
                                    <<Head(frame.queue), EPSILON>>, {})]
    /\ UNCHANGED <<heap, call, cache>>

\* one iteration of the for loop; a set is iterated in any order
ReachFor ==
    /\ frame.pc = "for"
    /\ \E s \in frame.pending : frame' = ReachVisit(frame, s)
    /\ UNCHANGED <<heap, call, cache>>

\* the for loop is exhausted
ReachEndFor ==
    /\ frame.pc = "for" /\ frame.pending = {}
    /\ frame' = [frame EXCEPT !.pc = "while"]
    /\ UNCHANGED <<heap, call, cache>>

\* "while queue" with an empty queue: return visited
ReachReturn ==
    /\ frame.pc = "while" /\ frame.queue = <<>>
    /\ frame' = [frame EXCEPT !.pc = "return"]
    /\ UNCHANGED <<heap, call, cache>>

ClosureNext == ReachPop \/ ReachFor \/ ReachEndFor \/ ReachReturn

\* a call that has started runs on
ClosureSpec == ClosureInit /\ [][ClosureNext]_vars /\ WF_vars(ClosureNext)

\* ============================================== determinize, step by step
\* The receiver is any automaton that passes construction; EPSILON may be a
\* member of its alphabet, since __init__ does not look for it.
MaxEliminations == 2
MaxDetEntries == 3
AlphabetsWithEpsilon ==
    (Alphabets \ {{}}) \cup {a \cup {EPSILON} : a \in Alphabets}
\* at most MaxDetEntries recorded destinations and empty entries together
DetTransitionDicts ==
    {TransitionDict(p[1], p[2]) :
        p \in {q \in SubsetsUpTo(Edges, MaxDetEntries) \X
                     SubsetsUpTo(Keys, MaxEmptyKeys) :
                  Cardinality(q[1]) + Cardinality(q[2]) <= MaxDetEntries}}
NoWork ==
    [start |-> EmptyState, states |-> {}, queue |-> <<>>,
     transitions |-> EmptyDict, nextId |-> 0]
\* self: the receiver of the innermost determinize call; eliminations: the
\* calls of remove_epsilon_transitions made so far (counted up to
\* MaxEliminations); w: start, states, queue and transitions of the subset
\* construction; enqueued and expanded list every composite put on the queue
\* and every (composite, symbol) pair the for loop has handled.
DeterminizeFrame(self) ==
    [pc |-> "determinize", self |-> self, eliminations |-> 0, w |-> NoWork,
     state |-> EmptyState, symbols |-> <<>>, enqueued |-> <<>>,
     expanded |-> <<>>, base |-> 0, ret |-> 0]

DeterminizeInit ==
    /\ \E states \in StateSets \ {{}}, alphabet \in AlphabetsWithEpsilon,
          transitions \in DetTransitionDicts :
          \E start \in states, accepting \in SUBSET states :
              heap = <<FiniteAutomaton(states, alphabet, transitions, start,
                                       accepting)>>
    /\ frame = DeterminizeFrame(1)
    /\ call = [NoCall EXCEPT !.op = "determinize", !.self = 1]
    /\ cache = NoCache

\* "if self.__type == 'dfa': return self"
DetReturnSelf ==
    /\ frame.pc = "determinize" /\ heap[frame.self].type = "dfa"
    /\ frame' = [frame EXCEPT !.pc = "return", !.ret = frame.self]
    /\ call' = [call EXCEPT !.ret = frame.self]
    /\ UNCHANGED <<heap, cache>>

\* "return self.remove_epsilon_transitions().determinize()": the inner call
\* starts on the new automaton, which takes the second place of the heap (the
\* receiver of an outer recursive call is no longer looked at)
DetEliminate ==
    /\ frame.pc = "determinize" /\ heap[frame.self].type = "epsilon-nfa"
    /\ heap' = <<heap[1], EpsilonFree(heap[frame.self])>>
    /\ frame' = [frame EXCEPT
                    !.self = 2,
                    !.eliminations = IF @ < MaxEliminations THEN @ + 1 ELSE @]
    /\ UNCHANGED <<call, cache>>

\* lines 264-273: start, states, queue, transitions
DetStart ==
    /\ frame.pc = "determinize" /\ heap[frame.self].type = "nfa"
    /\ LET base == FirstFreeId(LiveSymbols)
           w == InitialWork(heap[frame.self], base)
       IN  frame' = [frame EXCEPT !.pc = "while", !.w = w, !.base = base,
                                  !.enqueued = <<w.start>>]
    /\ UNCHANGED <<heap, call, cache>>

\* "while queue" with a non-empty queue: state = queue.popleft()
DetPop ==
    /\ frame.pc = "while" /\ frame.w.queue # <<>>
    /\ frame' = [frame EXCEPT
                    !.pc = "for", !.state = Head(frame.w.queue),
                    !.w.queue = Tail(@),
                    !.symbols = SetToSeq(heap[frame.self].alphabet)]
    /\ UNCHANGED <<heap, call, cache>>

\* one iteration of "for symbol in self.__alphabet"
DetFor ==
    /\ frame.pc = "for" /\ frame.symbols # <<>>
    /\ LET w == ExpandSymbol(heap[frame.self], frame.w, frame.state,
                             Head(frame.symbols))
       IN  frame' = [frame EXCEPT
                        !.w = w, !.symbols = Tail(@),
                        !.expanded = Append(@, <<frame.state, Head(frame.symbols)>>),
                        !.enqueued =
                            IF Len(w.queue) > Len(frame.w.queue)
                            THEN Append(@, w.queue[Len(w.queue)]) ELSE @]
    /\ UNCHANGED <<heap, call, cache>>

\* the for loop is exhausted
DetEndFor ==
    /\ frame.pc = "for" /\ frame.symbols = <<>>
    /\ frame' = [frame EXCEPT !.pc = "while"]
    /\ UNCHANGED <<heap, call, cache>>

\* "while queue" with an empty queue: lines 298-315
DetBuild ==
    /\ frame.pc = "while" /\ frame.w.queue = <<>>
    /\ heap' = Append(heap, Relabel(heap[frame.self], frame.w))
    /\ frame' = [frame EXCEPT !.pc = "return", !.ret = Len(heap) + 1]
    /\ call' = [call EXCEPT !.ret = Len(heap) + 1]
    /\ UNCHANGED cache

DeterminizeNext ==
    \/ DetReturnSelf
    \/ DetEliminate
    \/ DetStart
    \/ DetPop
    \/ DetFor
    \/ DetEndFor
    \/ DetBuild

\* a call that has started runs on
DeterminizeSpec ==
    DeterminizeInit /\ [][DeterminizeNext]_vars /\ WF_vars(DeterminizeNext)

\* ================================================== accepts and its cache
\* lru_cache keeps at most maxsize results, 128 where none is given; the
\* model keeps CacheSize, so that a few calls fill the cache.  The instances
\* are built over one input symbol, with start state 1.
CacheSize == 2
MaxInstances == 2
MaxCacheWordLen == 1
CacheDicts == {d \in TransitionDicts : \A k \in DOMAIN d : k[2] = 1}
CacheWords == UNION {[1..n -> {1}] : n \in 0..MaxCacheWordLen}
NoKey == <<>>

\* variant: the key is the word alone
CacheKey_WordOnly(i, word) == <<0, word>>

\* the key made of the call's arguments (self, word); an automaton hashes
\* and compares by identity
CacheKey(i, word) == <<i, word>>

\* the position of the entry with this key, 0 if there is none
Lookup(c, key) ==
    IF \E n \in DOMAIN c : c[n].key = key
    THEN CHOOSE n \in DOMAIN c : c[n].key = key
    ELSE 0
\* a hit makes its entry the most recently used
Touch(c, n) ==
    [m \in 1..(Len(c) - 1) |-> IF m < n THEN c[m] ELSE c[m + 1]] \o <<c[n]>>
\* a new result takes the place of the least recently used when the cache is
\* full
Store(c, entry) ==
    IF Len(c) < CacheSize THEN Append(c, entry) ELSE Append(Tail(c), entry)

\* accepts through the wrapper lru_cache puts around it: the cache after the
\* call, how the call ended, and the entry served or evicted
CachedAccepts(c, h, i, word, base) ==
    LET key == CacheKey(i, word)
        n == Lookup(c, key)
        r == Accepts(h[i], word, base)
        entry == [key |-> key, self |-> i, word |-> word, value |-> r.value]
    IN  IF n # 0
        THEN [cache |-> Touch(c, n), value |-> c[n].value, exc |-> "none",
              how |-> "hit", served |-> <<c[n].self, c[n].word>>,
              evicted |-> NoKey]
        ELSE IF r.exc # "none"
        THEN [cache |-> c, value |-> FALSE, exc |-> r.exc, how |-> "raise",
              served |-> NoKey, evicted |-> NoKey]
        ELSE [cache |-> Store(c, entry), value |-> r.value, exc |-> "none",
              how |-> "miss", served |-> NoKey,
              evicted |-> IF Len(c) < CacheSize THEN NoKey
                          ELSE <<c[1].self, c[1].word>>]

CacheInit ==
    /\ heap = <<>>
    /\ call = NoCall
    /\ frame = NoFrame
    /\ cache = NoCache

\* FiniteAutomaton(StateDom, {1}, transitions, 1, accepting): one more
\* instance (the guard Len(heap) < MaxInstances stands in CacheNext, before
\* the choice of the arguments)
NewInstance(transitions, accepting) ==
    /\ heap' = Append(heap, FiniteAutomaton(StateDom, {1}, transitions, 1,
                                            accepting))
    /\ call' = [NoCall EXCEPT !.op = "init", !.ret = Len(heap) + 1]
    /\ UNCHANGED <<frame, cache>>

\* heap[i].accepts(word)
CallCachedAccepts(i, word) ==
    LET r == CachedAccepts(cache, heap, i, word, FirstFreeId(LiveSymbols))
    IN  /\ cache' = r.cache
        /\ call' = [op |-> "accepts", self |-> i, word |-> word,
                    value |-> r.value, exc |-> r.exc, how |-> r.how,
                    served |-> r.served, evicted |-> r.evicted]
        /\ UNCHANGED <<heap, frame>>

CacheNext ==
    \/ /\ Len(heap) < MaxInstances
       /\ \E transitions \in CacheDicts, accepting \in SUBSET StateDom :
             NewInstance(transitions, accepting)
    \/ \E i \in DOMAIN heap, word \in CacheWords : CallCachedAccepts(i, word)

CacheSpec == CacheInit /\ [][CacheNext]_vars

\* ================================================================= claims
Objects == {heap[i] : i \in DOMAIN heap}
HasEpsilonKey(A) == \E k \in DOMAIN A.transitions : k[2] = EPSILON
EveryPairIsKey(A) == (A.states \X A.alphabet) \subseteq DOMAIN A.transitions
AtMostOneDestination(A) ==
    \A k \in DOMAIN A.transitions : Cardinality(A.transitions[k]) <= 1

\* C4: the kind of every automaton is epsilon-nfa iff some transition key has
\* EPSILON as its symbol; otherwise dfa iff every (state, symbol) pair of
\* states x alphabet is a key and every recorded destination set, of any
\* key, has at most one element; otherwise nfa.
C4_Classification ==
    \A A \in Objects :
        /\ (A.type = "epsilon-nfa") = HasEpsilonKey(A)
        /\ (A.type = "dfa") =
               (~HasEpsilonKey(A) /\ EveryPairIsKey(A) /\ AtMostOneDestination(A))
        /\ (A.type = "nfa") =
               (~HasEpsilonKey(A) /\ ~(EveryPairIsKey(A) /\ AtMostOneDestination(A)))

\* a constructed automaton that is total with single destinations and still
\* an epsilon-nfa
C4_Witness ==
    /\ call.op = "init" /\ call.ret = 1
    /\ heap[1].type = "epsilon-nfa"
    /\ EveryPairIsKey(heap[1]) /\ AtMostOneDestination(heap[1])

\* C5: construction succeeds iff states and alphabet are non-empty, start is
\* in states and accepting is a subset of states; a failure produces no
\* automaton and reports the first violated check, in the order states,
\* alphabet, start, accepting, each with its own reason.
FirstViolated(a) ==
    IF a.states = {} THEN 1
    ELSE IF a.alphabet = {} THEN 2
    ELSE IF a.start \notin a.states THEN 3
    ELSE IF ~(a.accepting \subseteq a.states) THEN 4
    ELSE 0
Reason(e) ==
    CASE e = "A finite automaton must have at least one state" -> 1
      [] e = "A finite automaton must have at least one symbol in its input alphabet" -> 2
      [] e = "The start state must be in the states" -> 3
      [] e = "The accepting states must be a subset of the states" -> 4
      [] OTHER -> 0
C5_Construction ==
    call.op = "init" =>
        LET a == call.args
            ok == /\ a.states # {} /\ a.alphabet # {}
                  /\ a.start \in a.states /\ a.accepting \subseteq a.states
        IN  /\ (call.exc = "none") = ok
            /\ Reason(call.exc) = FirstViolated(a)
            /\ ok => /\ Len(heap) = 1 /\ call.ret = 1
                     /\ heap[1].states = a.states
                     /\ heap[1].alphabet = a.alphabet
                     /\ heap[1].start = a.start
                     /\ heap[1].accepting = a.accepting
            /\ ~ok => heap = <<>> /\ call.ret = 0

\* a failed construction that violates the alphabet check and the start check
\* together, and reports the alphabet
C5_Witness ==
    /\ call.op = "init"
    /\ call.args.states # {} /\ call.args.alphabet = {}
    /\ call.args.start \notin call.args.states
    /\ Reason(call.exc) = 2
    /\ heap = <<>>

\* ------------------------------------------------- reference semantics
WordsOver(alphabet) == {w \in Words : \A i \in DOMAIN w : w[i] \in alphabet}
Base == FirstFreeId(LiveSymbols)
Mentioned(A) ==
    A.states \cup UNION {A.transitions[k] : k \in DOMAIN A.transitions}
Move(A, S, a) == UNION {Get(A.transitions, <<s, a>>, {}) : s \in S}

\* r is a run of A on w: it starts in start and follows one recorded
\* destination per symbol
IsRun(A, w, r) ==
    /\ r[1] = A.start
    /\ \A i \in DOMAIN w : r[i + 1] \in Get(A.transitions, <<r[i], w[i]>>, {})
HasAcceptingRun(A, w) ==
    \E r \in [1..(Len(w) + 1) -> Mentioned(A)] :
        IsRun(A, w, r) /\ r[Len(w) + 1] \in A.accepting

\* the least set that contains S and is closed under EPSILON transitions
RECURSIVE EpsilonClosure(_, _)
EpsilonClosure(A, S) ==
    LET T == S \cup Move(A, S, EPSILON)
    IN  IF T = S THEN S ELSE EpsilonClosure(A, T)
RECURSIVE EpsilonReach(_, _, _)
EpsilonReach(A, S, w) ==
    IF w = <<>> THEN S
    ELSE EpsilonReach(A, EpsilonClosure(A, Move(A, S, Head(w))), Tail(w))
\* some path from start that spells w, EPSILON moves allowed before, between
\* and after the symbols, ends in an accepting state
EpsilonAccepts(A, w) ==
    EpsilonReach(A, EpsilonClosure(A, {A.start}), w) \cap A.accepting # {}

C2_EpsilonEliminationPreservesLanguage ==
    (call.op = "remove_epsilon_transitions"
        /\ heap[call.self].type = "epsilon-nfa") =>
        \A w \in WordsOver(heap[call.self].alphabet) :
            LET r == Accepts(heap[call.ret], w, Base)
            IN  /\ r.exc = "none"
                /\ r.value = EpsilonAccepts(heap[call.self], w)

\* C3 (as claimed): determinize() returns a true DFA: every (state, symbol)
\* of the result has a recorded transition to exactly one state of the
\* result; and accepts(w) on any automaton returns without raising for
\* every word over its alphabet.
IsTrueDfa(D) ==
    \A q \in D.states : \A a \in D.alphabet :
        /\ <<q, a>> \in DOMAIN D.transitions
        /\ Cardinality(D.transitions[<<q, a>>]) = 1
        /\ D.transitions[<<q, a>>] \subseteq D.states
C3_DeterminizeIsTrueDfa ==
    /\ call.op = "determinize" => IsTrueDfa(heap[call.ret])
    /\ (call.op = "accepts" /\ call.word \in WordsOver(heap[call.self].alphabet))
           => call.exc = "none"

\* C6: remove_epsilon_transitions on an epsilon-nfa returns a new automaton
\* of kind nfa or dfa without EPSILON keys, and on an nfa or dfa the receiver
\* itself; determinize on an epsilon-nfa or nfa returns an automaton of kind
\* dfa, and on a dfa the receiver itself, so that determinize on its own
\* result returns that result; no call returns an epsilon-nfa.
IsTransform(c) == c.op \in {"remove_epsilon_transitions", "determinize"}
C10_EpsilonFreeShape ==
    (call.op = "remove_epsilon_transitions"
        /\ heap[call.self].type = "epsilon-nfa") =>
        LET A == heap[call.self]
            R == heap[call.ret]
        IN  /\ R.states = A.states \cup {START}
            /\ R.alphabet = A.alphabet
            /\ R.start = START
            /\ R.accepting = A.accepting
            /\ DOMAIN R.transitions = (A.states \cup {START}) \X A.alphabet
            /\ \A s \in A.states : \A a \in A.alphabet :
                   R.transitions[<<s, a>>] =
                       EpsilonClosure(A, Move(A, EpsilonClosure(A, {s}), a))
            /\ \A a \in A.alphabet :
                   R.transitions[<<START, a>>] = R.transitions[<<A.start, a>>]
            /\ START \in R.accepting => A.start \in A.accepting

\* an epsilon-nfa has been rid of its EPSILON transitions where both
\* closures matter: a destination is reached only through an EPSILON move
\* before the symbol, another only through one after it
C10_Witness ==
    /\ call.op = "remove_epsilon_transitions"
    /\ heap[call.self].type = "epsilon-nfa"
    /\ \E s \in heap[call.self].states : \E a \in heap[call.self].alphabet :
           /\ Get(heap[call.self].transitions, <<s, a>>, {}) = {}
           /\ heap[call.ret].transitions[<<s, a>>] # {}
    /\ \E s \in heap[call.self].states : \E a \in heap[call.self].alphabet :
           /\ Get(heap[call.self].transitions, <<s, a>>, {}) # {}
           /\ heap[call.ret].transitions[<<s, a>>] #
                  Move(heap[call.self], EpsilonClosure(heap[call.self], {s}), a)

\* ------------------------------------------------------------- simulation
IsDfaQuery(c) == IsQuery(c) /\ heap[c.self].type = "dfa"
NoDestination(A, q, a) ==
    <<q, a>> \notin DOMAIN A.transitions \/ A.transitions[<<q, a>>] = {}
\* the first (state, symbol) pair without a recorded destination that the
\* simulation of w from q reaches on a dfa, NoPair if there is none
RECURSIVE FirstDeadPair(_, _, _)
FirstDeadPair(A, q, w) ==
    IF w = <<>> THEN NoPair
    ELSE IF NoDestination(A, q, Head(w)) THEN <<q, Head(w)>>
    ELSE FirstDeadPair(A, CHOOSE d \in A.transitions[<<q, Head(w)>>] : TRUE,
                       Tail(w))

\* C7 (as claimed): on a dfa compute(w) yields start followed by one state
\* per symbol, each the single recorded destination of the pair before it,
\* and accepts(w) is true iff the last of them is accepting; on an nfa or
\* epsilon-nfa compute(w) yields what determinize().compute(w) yields, also
\* len(w) + 1 states.  Words are taken over the automaton's alphabet.
C7_ComputeYieldsTheRun ==
    (IsQuery(call) /\ call.word \in WordsOver(heap[call.self].alphabet)) =>
        LET A == heap[call.self]
            w == call.word
            D == Determinize(A, Base)
        IN  /\ call.exc = "none"
            /\ call.op = "compute" =>
                   /\ Len(call.path) = Len(w) + 1
                   /\ A.type = "dfa" =>
                          /\ call.path[1] = A.start
                          /\ \A i \in DOMAIN w :
                                 /\ <<call.path[i], w[i]>> \in DOMAIN A.transitions
                                 /\ A.transitions[<<call.path[i], w[i]>>]
                                        = {call.path[i + 1]}
                   /\ A.type # "dfa" =>
                          call.path = Simulate(D, D.start, w, <<D.start>>).path
            /\ (call.op = "accepts" /\ A.type = "dfa") =>
                   LET c == Simulate(A, A.start, w, <<A.start>>)
                   IN  call.value = (c.path[Len(c.path)] \in A.accepting)

\* C8 (as claimed): when the simulation of a word on a dfa reaches a pair
\* without a recorded destination (no key, or an empty destination set),
\* compute and accepts fail with the illegal-transition error naming that
\* pair, and accepts returns no value.
C8_IllegalTransitionNamesThePair ==
    (IsDfaQuery(call)
        /\ FirstDeadPair(heap[call.self], heap[call.self].start, call.word)
               # NoPair) =>
        /\ call.exc = "Illegal transition"
        /\ call.at = FirstDeadPair(heap[call.self], heap[call.self].start,
                                   call.word)
        /\ call.value = FALSE

\* C9: remove_epsilon_transitions and determinize leave every existing
\* automaton, the receiver included, with the states, alphabet, transitions,
\* start, accepting set and kind it had; and when the caller had just asked
\* the receiver accepts(w), the same question after the call ends the same
\* way.
C9_ReceiverUnchanged ==
    [][IsTransform(call') =>
          /\ \A i \in DOMAIN heap : i \in DOMAIN heap' /\ heap'[i] = heap[i]
          /\ (call.op = "accepts" /\ call.self = call'.self) =>
                 LET later == Accepts(heap'[call'.self], call.word, Base')
                 IN  later.value = call.value /\ later.exc = call.exc]_vars

\* both calls have built a new automaton from a receiver that is still held
C9_Witness ==
    /\ Len(heap) = 3
    /\ heap[1].type = "epsilon-nfa" /\ heap[2].type = "nfa"
    /\ heap[2].states = heap[1].states \cup {START}
    /\ call.op = "determinize" /\ call.self = 2 /\ call.ret = 3

\* ------------------------------------------------------- epsilon closure
\* X contains start and is closed under the EPSILON transitions of A
ClosedUnderEpsilon(A, start, X) ==
    /\ start \in X
    /\ \A s \in X : Get(A.transitions, <<s, EPSILON>>, {}) \subseteq X
NoDuplicates(seq) ==
    \A i \in DOMAIN seq : \A j \in DOMAIN seq : seq[i] = seq[j] => i = j

\* C11: __reachable_without_read returns for every transition relation,
\* EPSILON cycles and self-loops included; the set it returns contains the
\* given state, is closed under EPSILON transitions and is included in every
\* set that is (it is also what the one-step model ReachableWithoutRead
\* gives); and no state is put on the queue twice.
C11_ClosureTerminates ==
    /\ <>(frame.pc = "return")
    /\ [](frame.pc = "return" =>
            /\ ClosedUnderEpsilon(heap[1], frame.start, frame.visited)
            /\ \A X \in SUBSET (Mentioned(heap[1]) \cup {frame.start}) :
                   ClosedUnderEpsilon(heap[1], frame.start, X)
                       => frame.visited \subseteq X
            /\ frame.visited = ReachableWithoutRead(heap[1], frame.start))
    /\ [](NoDuplicates(frame.enqueued))

\* the traversal has returned three states from a relation with an EPSILON
\* self-loop and an EPSILON cycle through two of the states it returned
C11_Witness ==
    /\ frame.pc = "return"
    /\ Cardinality(frame.visited) = 3
    /\ \E s \in frame.visited : s \in Get(heap[1].transitions, <<s, EPSILON>>, {})
    /\ \E s \in frame.visited : \E t \in frame.visited \ {s} :
           /\ t \in Get(heap[1].transitions, <<s, EPSILON>>, {})
           /\ s \in Get(heap[1].transitions, <<t, EPSILON>>, {})

\* ----------------------------------------------------- subset construction
Composites(w) == {s \in w.states : s.kind = "SubsetState"}
\* the non-empty sets of states reached from {start} by the symbols of the
\* alphabet
RECURSIVE SubsetClosure(_, _)
SubsetClosure(A, F) ==
    LET G == F \cup ({Move(A, p[1], p[2]) : p \in F \X A.alphabet} \ {{}})
    IN  IF G = F THEN F ELSE SubsetClosure(A, G)
ReachableSubsets(A) == SubsetClosure(A, {{A.start}})
InQueue(w, c) == \E i \in DOMAIN w.queue : w.queue[i] = c
LoopIsOver == frame.pc = "return" \/ (frame.pc = "while" /\ frame.w.queue = <<>>)

\* C12: at every step of the worklist loop no two discovered composites have
\* the same set of elements; the composites put on the queue are the
\* discovered ones, each once; no (composite, symbol) pair is expanded twice,
\* a composite still on the queue has not been expanded, one that has left it
\* (and is not the one in the for loop) has been expanded for every alphabet
\* symbol, and so has every composite when the loop is over; every composite
\* is a non-empty set reached from {start}; and there are at most
\* 2^|Q| - 1 of them, Q the states the input mentions.
C12_WorklistInvariants ==
    LET A == heap[frame.self]
        w == frame.w
        C == Composites(w)
        expanded == Elems(frame.expanded)
    IN  /\ \A c \in C : \A d \in C :
               Elems(c.states) = Elems(d.states) => c = d
        /\ NoDuplicates(frame.enqueued)
        /\ Elems(frame.enqueued) = C
        /\ NoDuplicates(frame.expanded)
        /\ expanded \subseteq C \X A.alphabet
        /\ \A c \in C :
               /\ InQueue(w, c) => \A a \in A.alphabet : <<c, a>> \notin expanded
               /\ (~InQueue(w, c) /\ ~(frame.pc = "for" /\ frame.state = c))
                      => \A a \in A.alphabet : <<c, a>> \in expanded
               /\ Elems(c.states) # {}
               /\ Elems(c.states) \in ReachableSubsets(A)
        /\ LoopIsOver =>
               /\ expanded = C \X A.alphabet
               /\ {Elems(c.states) : c \in C} =
                      IF C = {} THEN {} ELSE ReachableSubsets(A)
        /\ Cardinality(C) <= 2 ^ Cardinality(Mentioned(A)) - 1

\* the loop is over with three composites, one of two elements, and some
\* expansion found a composite that had been discovered before
C12_Witness ==
    /\ frame.pc = "return"
    /\ Cardinality(Composites(frame.w)) = 3
    /\ \E c \in Composites(frame.w) : Len(c.states) = 2
    /\ \E e \in Elems(frame.expanded) : \E f \in Elems(frame.expanded) :
           /\ e # f
           /\ frame.w.transitions[e] = frame.w.transitions[f]
           /\ frame.w.transitions[e].kind = "SubsetState"

\* C13 (as claimed): determinize() returns on every automaton that passes
\* construction, and calls remove_epsilon_transitions at most once on the way.
C13_DeterminizeTerminates ==
    /\ <>(frame.pc = "return")
    /\ [](frame.eliminations <= 1)

\* C14: in the automaton D returned by subset construction a (composite,
\* symbol) pair leads to EMPTY iff the union of its destinations is empty;
\* EMPTY is a state of D iff there is such a pair; it then leads to itself on
\* every alphabet symbol and has no other key; it is not accepting; and a
\* word whose run has entered EMPTY stays there and is rejected.
C14_EmptyIsAbsorbing ==
    (frame.pc = "return" /\ frame.w # NoWork) =>
        LET A == heap[frame.self]
            D == heap[frame.ret]
            C == Composites(frame.w)
            dead == {p \in C \X A.alphabet : NextStates(A, p[1], p[2]) = {}}
        IN  /\ \A p \in C \X A.alphabet :
                   (Get(D.transitions, <<ToSymbol(p[1]), p[2]>>, {}) = {EMPTY})
                       = (p \in dead)
            /\ (EMPTY \in D.states) = (dead # {})
            /\ EMPTY \in D.states =>
                   /\ \A a \in A.alphabet :
                          Get(D.transitions, <<EMPTY, a>>, {}) = {EMPTY}
                   /\ \A k \in DOMAIN D.transitions :
                          k[1] = EMPTY => k[2] \in A.alphabet
            /\ EMPTY \notin D.accepting
            /\ \A word \in WordsOver(A.alphabet) :
                   LET c == Simulate(D, D.start, word, <<D.start>>)
                   IN  \A i \in DOMAIN c.path :
                           c.path[i] = EMPTY =>
                               /\ c.exc = "none"
                               /\ \A j \in i..Len(c.path) : c.path[j] = EMPTY
                               /\ D.type = "dfa" =>
                                      ~Accepts(D, word, FirstFreeId(LiveSymbols)).value

\* subset construction has returned an automaton with an accepting state in
\* which the run of a two-symbol word enters EMPTY at its first symbol
C14_Witness ==
    /\ frame.pc = "return" /\ frame.w # NoWork
    /\ EMPTY \in heap[frame.ret].states
    /\ heap[frame.ret].accepting # {}
    /\ \E word \in WordsOver(heap[frame.self].alphabet) :
           LET c == Simulate(heap[frame.ret], heap[frame.ret].start, word,
                             <<heap[frame.ret].start>>)
           IN  Len(word) = 2 /\ c.path[2] = EMPTY /\ c.path[3] = EMPTY

\* ------------------------------------------------------------ memoization
\* C15: whatever accepts calls came before, on however many instances,
\* accepts(w) on A ends as accepts without the cache ends: with the same
\* value, or with the same error; every entry of the cache holds the value
\* of its own instance and word; a hit serves the entry stored for the same
\* instance and the same word; and the cache never holds more than CacheSize
\* entries or two entries for one call.
C15_MemoizationIsTransparent ==
    /\ call.op = "accepts" =>
           LET plain == Accepts(heap[call.self], call.word, Base)
           IN  /\ call.exc = plain.exc
               /\ call.value = plain.value
               /\ call.how = "hit" => call.served = <<call.self, call.word>>
    /\ \A n \in DOMAIN cache :
           LET plain == Accepts(heap[cache[n].self], cache[n].word, Base)
           IN  plain.exc = "none" /\ cache[n].value = plain.value
    /\ \A n \in DOMAIN cache : \A m \in DOMAIN cache :
           (cache[n].self = cache[m].self /\ cache[n].word = cache[m].word)
               => n = m
    /\ Len(cache) <= CacheSize

\* two instances with the same contents: accepts(w) on the second is computed
\* anew, and its result evicts the entry of the first instance for the same w
C15_Witness ==
    /\ Len(heap) = 2 /\ heap[1] = heap[2]
    /\ call.op = "accepts" /\ call.self = 2 /\ call.how = "miss"
    /\ call.evicted = <<1, call.word>>
    /\ call.value

====
